---- MODULE Spec2Model ----
(***************************************************************************)
(* State-machine model of scripts/compile.py: the concurrency planner, the *)
(* option processing of main, project discovery, and the two-level thread  *)
(* pool that compiles the pad and exam variant of every project and        *)
(* aggregates the report.                                                  *)
(*                                                                         *)
(* Optional values (an option that was not given, a call that raised) are  *)
(* sequences of length 0 or 1: <<>> is "absent", <<v>> is "v".             *)
(***************************************************************************)
EXTENDS Integers, Sequences, FiniteSets, TLC

\* ------------------------------------------------------------------ bounds

\* Largest logical core count and largest --force-cpu explored by SpecPlan.
MaxCpu == 33
\* Largest value of --max-projects / --max-tasks-per-project explored by SpecPlan
\* (the smallest is -1: argparse's type=int accepts any integer).
MaxWidthArg == 3
\* Number of directories under contents/ explored by Spec.
MaxUnits == 2
\* Logical core count of the machine in Spec.
RunCpu == 2
\* Number of lines main prints while variant tasks run, in SpecConsole.
MaxMainPrints == 1
\* Largest number of pieces a source body is made of, in SpecRender.
MaxPieces == 3

VARIABLES
    pc,                     \* position of the main thread in main()
    logical_cores,          \* environment: <<n>> usable logical cores, <<>> if the query raises
    argv,                   \* environment: the command line
    cpu_count,              \* main: cpu_count
    max_projects,           \* main: max_projects
    max_tasks_per_project,  \* main: max_tasks_per_project
    args,                   \* main: args (argparse namespace)
    is_sub,                 \* main: is_sub
    projects,               \* main: projects
    futures,                \* main: futures, with the state of each project task
    successful_projects,    \* main: successful_projects
    failed_projects,        \* main: failed_projects
    results,                \* main: results
    i,                      \* main: loop index of the as_completed loop
    exit_status,            \* exit status of the process, <<>> while it runs
    print_lock,             \* print_lock: <<>> when free, <<t>> when thread t holds it
    console,                \* the writes sys.stdout has received, in order
    printers,               \* per printing thread: the prints ahead of it and its position
    input_tex,              \* compile_sub_exam: the text of main.tex, as characters
    out_tex                 \* compile_sub_exam: <<body>> once the body is rendered

vars == <<pc, logical_cores, argv, cpu_count, max_projects, max_tasks_per_project,
          args, is_sub, projects, futures, successful_projects, failed_projects,
          results, i, exit_status, print_lock, console, printers, input_tex, out_tex>>

planVars == <<cpu_count, max_projects, max_tasks_per_project>>
reportVars == <<successful_projects, failed_projects, results, i>>
consoleVars == <<print_lock, console, printers>>
renderVars == <<input_tex, out_tex>>
\* What no step of main and of the two pools changes: the environment, and the
\* console and rendering state that SpecConsole and SpecRender explore.
envVars == <<logical_cores, argv, consoleVars, renderVars>>

Max(a, b) == IF a >= b THEN a ELSE b
Min(a, b) == IF a <= b THEN a ELSE b

\* ------------------------------------------------------- ConcurrencyPlanner

\* get_cpu_count: max(logical_cores, 2); the bare except returns 4.
get_cpu_count(cores) ==
    IF cores = <<>> THEN 4 ELSE Max(cores[1], 2)

\* A slip in the tier boundary: "< 8" where the code has "<= 8".
calculate_concurrency_lt8(cpu) ==
    IF cpu <= 4 THEN <<Max(cpu, 2), 2>>
    ELSE IF cpu < 8 THEN <<cpu - 1, 2>>
    ELSE <<cpu - 2, Min(2, cpu \div 4)>>

\* calculate_concurrency: <<projects_conc, tasks_conc>>.
calculate_concurrency(cpu) ==
    IF cpu <= 4 THEN <<Max(cpu, 2), 2>>
    ELSE IF cpu <= 8 THEN <<cpu - 1, 2>>
    ELSE <<cpu - 2, Min(2, cpu \div 4)>>

\* ------------------------------------------------------- option processing

\* str.lower() on the values of --sub the model draws.
lower(s) ==
    CASE s = "True" -> "true"
      [] s = "FALSE" -> "false"
      [] OTHER -> s

\* argparse: an option that is not given takes its default; the defaults of the
\* two widths are the values computed from the detected CPU count (lines 451-454).
parse_args(av, default_projects, default_tasks) ==
    [ sub |-> IF av.sub = <<>> THEN "true" ELSE av.sub[1],
      max_projects |-> IF av.max_projects = <<>> THEN default_projects
                       ELSE av.max_projects[1],
      max_tasks_per_project |-> IF av.max_tasks_per_project = <<>> THEN default_tasks
                                ELSE av.max_tasks_per_project[1],
      force_cpu |-> IF av.force_cpu = <<>> THEN 0 ELSE av.force_cpu[1] ]

\* An override that is applied only when it raises the computed width.
override_only_raises(given, computed) ==
    IF given > computed THEN given ELSE computed

\* Lines 469-472: "if args.x != x: x = args.x".
override(given, computed) ==
    IF given # computed THEN given ELSE computed

\* Lines 442-446: detect the CPU count and compute the default plan.
main_detect ==
    /\ pc = "detect"
    /\ cpu_count' = get_cpu_count(logical_cores)
    /\ max_projects' = calculate_concurrency(cpu_count')[1]
    /\ max_tasks_per_project' = calculate_concurrency(cpu_count')[2]
    /\ pc' = "parse"
    /\ UNCHANGED <<envVars, args, is_sub, projects, futures, reportVars, exit_status>>

\* Lines 448-458: parse the command line.
main_parse_args ==
    /\ pc = "parse"
    /\ args' = parse_args(argv, max_projects, max_tasks_per_project)
    /\ pc' = "force"
    /\ UNCHANGED <<envVars, planVars, is_sub, projects, futures, reportVars, exit_status>>

\* Lines 461-464: a forced CPU count replaces the detected one and the plan.
main_force_cpu ==
    /\ pc = "force"
    /\ IF args.force_cpu > 0
       THEN /\ cpu_count' = args.force_cpu
            /\ max_projects' = calculate_concurrency(args.force_cpu)[1]
            /\ max_tasks_per_project' = calculate_concurrency(args.force_cpu)[2]
       ELSE UNCHANGED planVars
    /\ pc' = "override"
    /\ UNCHANGED <<envVars, args, is_sub, projects, futures, reportVars, exit_status>>

\* Lines 466-478: is_sub and the two width overrides.
main_overrides ==
    /\ pc = "override"
    /\ is_sub' = (lower(args.sub) = "true")
    /\ max_projects' = override(args.max_projects, max_projects)
    /\ max_tasks_per_project' = override(args.max_tasks_per_project, max_tasks_per_project)
    /\ pc' = "submode"
    /\ UNCHANGED <<envVars, cpu_count, args, projects, futures, reportVars, exit_status>>

\* The state at the start of main, the environment drawn from the given sets.
InitWith(cores, subs, widths_p, widths_t, forced) ==
    /\ pc = "detect"
    /\ logical_cores \in cores
    /\ argv \in [ sub : subs, max_projects : widths_p,
                  max_tasks_per_project : widths_t, force_cpu : forced ]
    /\ cpu_count = 0
    /\ max_projects = 0
    /\ max_tasks_per_project = 0
    /\ args = [sub |-> "", max_projects |-> 0, max_tasks_per_project |-> 0, force_cpu |-> 0]
    /\ is_sub = FALSE
    /\ projects = <<>>
    /\ futures = <<>>
    /\ successful_projects = <<>>
    /\ failed_projects = <<>>
    /\ results = <<>>
    /\ i = 0
    /\ exit_status = <<>>

Opt(S) == {<<>>} \cup {<<x>> : x \in S}

\* Nothing is printing and nothing has been printed.
ConsoleIdle ==
    /\ print_lock = <<>>
    /\ console = <<>>
    /\ printers = <<>>

\* No exam body is being rendered.
RenderIdle ==
    /\ input_tex = <<>>
    /\ out_tex = <<>>

\* Option processing alone, over every CPU count, forced count and override.
InitPlan ==
    /\ InitWith(Opt(1..MaxCpu), {<<>>, <<"True">>, <<"false">>},
                Opt(-1..MaxWidthArg), Opt(-1..MaxWidthArg), Opt(0..MaxCpu))
    /\ ConsoleIdle
    /\ RenderIdle

NextPlan ==
    \/ main_detect
    \/ main_parse_args
    \/ main_force_cpu
    \/ main_overrides

SpecPlan == InitPlan /\ [][NextPlan]_vars

\* ------------------------------------------------------- ProjectDiscoverer

\* first_line.replace('%', '') on a line given as a sequence of characters.
RECURSIVE remove_percent(_)
remove_percent(line) ==
    IF line = <<>> THEN <<>>
    ELSE IF Head(line) = "%" THEN remove_percent(Tail(line))
    ELSE <<Head(line)>> \o remove_percent(Tail(line))

Whitespace == {" ", "\n"}

RECURSIVE lstrip(_)
lstrip(line) ==
    IF line # <<>> /\ Head(line) \in Whitespace THEN lstrip(Tail(line)) ELSE line

RECURSIVE rstrip(_)
rstrip(line) ==
    IF line # <<>> /\ line[Len(line)] \in Whitespace
    THEN rstrip(SubSeq(line, 1, Len(line) - 1)) ELSE line

\* str.strip().
strip(line) == rstrip(lstrip(line))

\* The characters of a line as one string.
RECURSIVE join(_)
join(line) == IF line = <<>> THEN "" ELSE Head(line) \o join(Tail(line))

\* Line 426: title = first_line.replace('%', '').strip().
title_of(first_line) == join(strip(remove_percent(first_line)))

\* Lines 419-434: the directories in traversal order, from position k on. A
\* directory without main.tex is no project, one whose main.tex cannot be read
\* or whose title is empty is skipped.
RECURSIVE scan(_, _)
scan(dirs, k) ==
    IF k > Len(dirs) THEN <<>>
    ELSE IF dirs[k].main = "file" /\ title_of(dirs[k].first_line) # ""
         THEN <<[name |-> title_of(dirs[k].first_line),
                 entry |-> "contents/d" \o ToString(k)]>> \o scan(dirs, k + 1)
         ELSE scan(dirs, k + 1)

\* get_list: <<>> when contents/ does not exist (tree = <<>>).
get_list(tree) == IF tree = <<>> THEN <<>> ELSE scan(tree[1], 1)

FirstLines == { <<"%", " ", "A", "\n">>, <<"B", "\n">>, <<"%", "\n">> }

Units == { [main |-> "absent", first_line |-> <<>>],
           [main |-> "unreadable", first_line |-> <<>>] }
         \cup { [main |-> "file", first_line |-> l] : l \in FirstLines }

Trees == Opt(UNION { [1..n -> Units] : n \in 0..MaxUnits })

\* ------------------------------------------------------------ variant tasks

NewTask == [state |-> "unsubmitted", outcome |-> "none", render_failed |-> FALSE,
            spawned |-> FALSE, returncode |-> <<>>, collected |-> FALSE]

\* The future of project k as main submits it (lines 503-509).
NewFuture == [state |-> "queued", tasks |-> [v \in {"pad", "exam"} |-> NewTask],
              results |-> <<>>, value |-> <<>>, consumed |-> FALSE]

\* Lines 396, 399 and 212, 376: the task id and the task type a variant returns.
task_type(v, task_id) == v \o "_" \o ToString(task_id) \o "_" \o v

\* compile_sub_pad up to the wait for the subprocess. Writing pad.tex (lines
\* 179-182) is outside any try: a failure raises out of the task. Popen is
\* inside the try of lines 197-223: a failure returns False.
compile_sub_pad_begin(t, event) ==
    CASE event = "render_fail" ->
           [t EXCEPT !.state = "done", !.outcome = "raised", !.render_failed = TRUE]
      [] event = "spawn_fail" -> [t EXCEPT !.state = "done", !.outcome = "false"]
      [] OTHER -> [t EXCEPT !.state = "compiling", !.spawned = TRUE]

\* compile_sub_exam up to the wait for the subprocess. Reading main.tex and
\* writing exam.tex are inside the try of lines 336-349: a failure returns False.
compile_sub_exam_begin(t, event) ==
    CASE event = "render_fail" ->
           [t EXCEPT !.state = "done", !.outcome = "false", !.render_failed = TRUE]
      [] event = "spawn_fail" -> [t EXCEPT !.state = "done", !.outcome = "false"]
      [] OTHER -> [t EXCEPT !.state = "compiling", !.spawned = TRUE]

\* A task that reports success whatever the compiler's exit status.
succeeded_always(returncode) == TRUE

\* Lines 210 and 374: process.returncode == 0.
succeeded(returncode) == returncode = 0

\* Lines 207-219 and 371-383: the subprocess has exited with returncode.
compile_sub_end(t, returncode) ==
    [t EXCEPT !.state = "done", !.returncode = <<returncode>>,
              !.outcome = IF succeeded(returncode) THEN "true" ELSE "false"]

\* ----------------------------------------------------------- TaskScheduler

\* Line 393: ThreadPoolExecutor(max_workers=width) raises ValueError for a
\* width <= 0, which leaves compile_sub_project; otherwise both variants are
\* submitted (lines 396-400).
compile_sub_project_begin(f, width) ==
    IF width <= 0 THEN [f EXCEPT !.state = "raised"]
    ELSE [f EXCEPT !.state = "running",
                   !.tasks = [v \in {"pad", "exam"} |-> [NewTask EXCEPT !.state = "queued"]]]

\* A reduction by OR.
any_success(rs) == \E r \in 1..Len(rs) : rs[r][1]

\* Line 406: all(success for success, _ in results).
all_success(rs) == \A r \in 1..Len(rs) : rs[r][1]

\* The number of variant tasks of f whose subprocess is running.
compiling(f) == Cardinality({v \in {"pad", "exam"} : f.tasks[v].state = "compiling"})

\* The number of project tasks that occupy a worker of the project pool.
running_projects ==
    Cardinality({k \in DOMAIN futures : futures[k].state \in {"running", "raising"}})

\* A project pool that starts every submitted project at once.
project_start_unbounded(k) ==
    /\ futures[k].state = "queued"
    /\ \A j \in 1..(k - 1) : futures[j].state # "queued"
    /\ futures' = [futures EXCEPT ![k] = compile_sub_project_begin(@, max_tasks_per_project)]
    /\ UNCHANGED <<pc, envVars, planVars, args, is_sub, projects, reportVars, exit_status>>

\* A worker of the project pool takes the next project from the queue (FIFO)
\* and enters compile_sub_project (lines 389-400).
project_start(k) ==
    /\ futures[k].state = "queued"
    /\ \A j \in 1..(k - 1) : futures[j].state # "queued"
    /\ running_projects < max_projects
    /\ futures' = [futures EXCEPT ![k] = compile_sub_project_begin(@, max_tasks_per_project)]
    /\ UNCHANGED <<pc, envVars, planVars, args, is_sub, projects, reportVars, exit_status>>

\* Variant tasks submitted to the project pool itself instead of a pool of
\* their own: a variant needs a worker that no project task occupies.
task_begin_shared_pool(k, v) ==
    /\ futures[k].state \in {"running", "raising"}
    /\ futures[k].tasks[v].state = "queued"
    /\ v = "exam" => futures[k].tasks["pad"].state # "queued"
    /\ running_projects + compiling(futures[k]) < max_projects
    /\ \E event \in {"render_fail", "spawn_fail", "spawn"} :
         futures' = [futures EXCEPT ![k].tasks[v] =
                        IF v = "pad" THEN compile_sub_pad_begin(@, event)
                        ELSE compile_sub_exam_begin(@, event)]
    /\ UNCHANGED <<pc, envVars, planVars, args, is_sub, projects, reportVars, exit_status>>

\* A worker of project k's pool takes variant v from the queue (FIFO: pad was
\* submitted first) and runs it up to the wait for the subprocess.
task_begin(k, v) ==
    /\ futures[k].state \in {"running", "raising"}
    /\ futures[k].tasks[v].state = "queued"
    /\ v = "exam" => futures[k].tasks["pad"].state # "queued"
    /\ compiling(futures[k]) < max_tasks_per_project
    /\ \E event \in {"render_fail", "spawn_fail", "spawn"} :
         futures' = [futures EXCEPT ![k].tasks[v] =
                        IF v = "pad" THEN compile_sub_pad_begin(@, event)
                        ELSE compile_sub_exam_begin(@, event)]
    /\ UNCHANGED <<pc, envVars, planVars, args, is_sub, projects, reportVars, exit_status>>

\* The compiler subprocess of variant v exits; the task returns.
task_end(k, v) ==
    /\ futures[k].tasks[v].state = "compiling"
    /\ \E returncode \in {0, 1} :
         futures' = [futures EXCEPT ![k].tasks[v] = compile_sub_end(@, returncode)]
    /\ UNCHANGED <<pc, envVars, planVars, args, is_sub, projects, reportVars, exit_status>>

\* Lines 402-404: as_completed yields a finished variant; future.result()
\* re-raises what the task raised, else the result is appended.
project_collect(k, v) ==
    /\ futures[k].state = "running"
    /\ futures[k].tasks[v].state = "done"
    /\ ~futures[k].tasks[v].collected
    /\ futures' =
         [futures EXCEPT
            ![k].tasks[v].collected = TRUE,
            ![k].state = IF futures[k].tasks[v].outcome = "raised" THEN "raising" ELSE @,
            ![k].results = IF futures[k].tasks[v].outcome = "raised" THEN @
                           ELSE Append(@, <<futures[k].tasks[v].outcome = "true",
                                            task_type(v, k - 1)>>)]
    /\ UNCHANGED <<pc, envVars, planVars, args, is_sub, projects, reportVars, exit_status>>

\* A project task that records its own failure in the shared failed list.
project_return_appends(k) ==
    /\ futures[k].state = "running"
    /\ \A v \in {"pad", "exam"} : futures[k].tasks[v].collected
    /\ futures' = [futures EXCEPT
                     ![k].state = "returned",
                     ![k].value = <<all_success(futures[k].results), k - 1, projects[k].name>>]
    /\ failed_projects' = IF all_success(futures[k].results) THEN failed_projects
                          ELSE Append(failed_projects, projects[k].name)
    /\ UNCHANGED <<pc, envVars, planVars, args, is_sub, projects, successful_projects,
                   results, i, exit_status>>

\* Lines 406-407: both results are in; compile_sub_project returns.
project_return(k) ==
    /\ futures[k].state = "running"
    /\ \A v \in {"pad", "exam"} : futures[k].tasks[v].collected
    /\ futures' = [futures EXCEPT
                     ![k].state = "returned",
                     ![k].value = <<all_success(futures[k].results), k - 1, projects[k].name>>]
    /\ UNCHANGED <<pc, envVars, planVars, args, is_sub, projects, reportVars, exit_status>>

\* An exception that leaves compile_sub_project at once, the variants of the
\* project still running.
project_raise_nowait(k) ==
    /\ futures[k].state = "raising"
    /\ futures' = [futures EXCEPT ![k].state = "raised"]
    /\ UNCHANGED <<pc, envVars, planVars, args, is_sub, projects, reportVars, exit_status>>

\* The exception of line 403 leaves the with-block of line 393, whose exit
\* waits for every submitted variant (shutdown(wait=True)); then it leaves
\* compile_sub_project.
project_raise(k) ==
    /\ futures[k].state = "raising"
    /\ \A v \in {"pad", "exam"} : futures[k].tasks[v].state = "done"
    /\ futures' = [futures EXCEPT ![k].state = "raised"]
    /\ UNCHANGED <<pc, envVars, planVars, args, is_sub, projects, reportVars, exit_status>>

\* ---------------------------------------------------------- ProjectScheduler

\* Line 527: f"<prefix>{i}", the prefix written "xm" here.
fault_name(idx) == "xm" \o ToString(idx)

\* An except branch that records nothing.
record_fault_dropped(failed, idx) == failed

\* Lines 525-527: the except branch of the as_completed loop.
record_fault(failed, idx) == Append(failed, fault_name(idx))

\* A project counted as succeeded only while no project has failed before it.
record_outcome_sticky(succ, failed, ok, name) ==
    IF ok /\ failed = <<>> THEN <<Append(succ, name), failed>>
    ELSE <<succ, Append(failed, name)>>

\* Lines 518-523: <<successful_projects, failed_projects>> after one outcome.
record_outcome(succ, failed, ok, name) ==
    IF ok THEN <<Append(succ, name), failed>> ELSE <<succ, Append(failed, name)>>

\* An exit status that ignores the failed list.
exit_code_zero(failed) == 0

\* Lines 557-561: sys.exit(1) if a project failed, else main returns.
exit_code(failed) == IF Len(failed) = 0 THEN 0 ELSE 1

\* Lines 480-482: not in sub mode, main returns.
main_sub_check ==
    /\ pc = "submode"
    /\ IF is_sub THEN pc' = "discover" /\ UNCHANGED exit_status
       ELSE pc' = "exited" /\ exit_status' = <<0>>
    /\ UNCHANGED <<envVars, planVars, args, is_sub, projects, futures, reportVars>>

\* Lines 484-488: discover the projects; with none, main returns.
main_get_list ==
    /\ pc = "discover"
    /\ \E tree \in Trees :
         /\ projects' = get_list(tree)
         /\ IF projects' = <<>> THEN pc' = "exited" /\ exit_status' = <<0>>
            ELSE pc' = "shrink" /\ UNCHANGED exit_status
    /\ UNCHANGED <<envVars, planVars, args, is_sub, futures, reportVars>>

\* A main that creates the pool with the width of the plan, never shrunk.
main_shrink_skipped ==
    /\ pc = "shrink"
    /\ pc' = "pool"
    /\ UNCHANGED <<envVars, planVars, args, is_sub, projects, futures, reportVars,
                   exit_status>>

\* Lines 494-497: fewer projects than workers.
main_shrink ==
    /\ pc = "shrink"
    /\ max_projects' = IF Len(projects) < max_projects
                       THEN Min(Len(projects), max_projects) ELSE max_projects
    /\ pc' = "pool"
    /\ UNCHANGED <<envVars, cpu_count, max_tasks_per_project, args, is_sub, projects,
                   futures, reportVars, exit_status>>

\* Line 499: ThreadPoolExecutor(max_workers=max_projects) raises ValueError for
\* a width <= 0; nothing in main catches it and the interpreter exits with 1.
main_create_pool ==
    /\ pc = "pool"
    /\ IF max_projects <= 0
       THEN pc' = "crashed" /\ exit_status' = <<1>>
       ELSE pc' = "submit" /\ UNCHANGED exit_status
    /\ UNCHANGED <<envVars, planVars, args, is_sub, projects, futures, reportVars>>

\* Lines 502-513: submit the next project; after the last one the loop over
\* as_completed begins.
main_submit ==
    /\ pc = "submit"
    /\ futures' = Append(futures, NewFuture)
    /\ pc' = IF Len(futures') = Len(projects) THEN "collect" ELSE "submit"
    /\ UNCHANGED <<envVars, planVars, args, is_sub, projects, reportVars, exit_status>>

\* Lines 515-527: as_completed yields the finished project k.
main_consume(k) ==
    /\ pc = "collect"
    /\ futures[k].state \in {"returned", "raised"}
    /\ ~futures[k].consumed
    /\ futures' = [futures EXCEPT ![k].consumed = TRUE]
    /\ IF futures[k].state = "returned"
       THEN /\ successful_projects' =
                 record_outcome(successful_projects, failed_projects,
                                futures[k].value[1], futures[k].value[3])[1]
            /\ failed_projects' =
                 record_outcome(successful_projects, failed_projects,
                                futures[k].value[1], futures[k].value[3])[2]
            /\ results' = Append(results, <<futures[k].value[1], futures[k].value[3]>>)
       ELSE /\ failed_projects' = record_fault(failed_projects, i)
            /\ UNCHANGED <<successful_projects, results>>
    /\ i' = i + 1
    /\ pc' = IF i' = Len(futures) THEN "report" ELSE "collect"
    /\ UNCHANGED <<envVars, planVars, args, is_sub, projects, exit_status>>

\* Lines 529-561: the report and the exit status.
main_report ==
    /\ pc = "report"
    /\ exit_status' = <<exit_code(failed_projects)>>
    /\ pc' = "exited"
    /\ UNCHANGED <<envVars, planVars, args, is_sub, projects, futures, reportVars>>

\* A run on a machine with RunCpu cores, with or without the width overrides.
Init ==
    /\ InitWith({<<RunCpu>>}, {<<>>, <<"false">>},
                {<<>>, <<0>>, <<1>>}, {<<>>, <<0>>, <<1>>}, {<<>>})
    /\ ConsoleIdle
    /\ RenderIdle

Next ==
    \/ main_detect
    \/ main_parse_args
    \/ main_force_cpu
    \/ main_overrides
    \/ main_sub_check
    \/ main_get_list
    \/ main_shrink
    \/ main_create_pool
    \/ main_submit
    \/ \E k \in DOMAIN futures : project_start(k)
    \/ \E k \in DOMAIN futures, v \in {"pad", "exam"} : task_begin(k, v)
    \/ \E k \in DOMAIN futures, v \in {"pad", "exam"} : task_end(k, v)
    \/ \E k \in DOMAIN futures, v \in {"pad", "exam"} : project_collect(k, v)
    \/ \E k \in DOMAIN futures : project_return(k)
    \/ \E k \in DOMAIN futures : project_raise(k)
    \/ \E k \in DOMAIN futures : main_consume(k)
    \/ main_report

Spec == Init /\ [][Next]_vars

\* Every thread that can take a step eventually takes one, and every
\* compiler subprocess eventually exits (task_end).
SpecFair == Init /\ [][Next]_vars /\ WF_vars(Next)

\* -------------------------------------------------------------- the console

\* Everything main and the two pools own.
runVars == <<pc, logical_cores, argv, planVars, args, is_sub, projects, futures,
             reportVars, exit_status>>

\* A print is modelled by the critical section it runs in: the lines printed
\* while print_lock is held once. thread_safe_print (lines 54-57) prints one.
thread_safe_print(line) == << <<line>> >>

\* The error block written as two separate thread_safe_print calls.
error_block_split == thread_safe_print("error_header") \o thread_safe_print("stderr")

\* Lines 216-218 and 380-382: "with print_lock:" around two prints.
error_block == << <<"error_header", "stderr">> >>

\* What compile_sub_pad prints on each of its paths (lines 61, 184, 211-223).
\* A failed write of pad.tex raises after the first print.
compile_sub_pad_prints(path) ==
    thread_safe_print("start") \o
    CASE path = "render_fail" -> <<>>
      [] path = "spawn_fail" ->
           thread_safe_print("generated") \o thread_safe_print("exception")
      [] path = "ok" -> thread_safe_print("generated") \o thread_safe_print("success")
      [] path = "fail_quiet" ->
           thread_safe_print("generated") \o thread_safe_print("failed")
      [] path = "fail" ->
           thread_safe_print("generated") \o thread_safe_print("failed") \o error_block

\* What compile_sub_exam prints on each of its paths (lines 227, 345-348, 375-386).
compile_sub_exam_prints(path) ==
    thread_safe_print("start") \o
    CASE path = "render_fail" -> thread_safe_print("io_failed")
      [] path = "spawn_fail" ->
           thread_safe_print("generated") \o thread_safe_print("exception")
      [] path = "ok" -> thread_safe_print("generated") \o thread_safe_print("success")
      [] path = "fail_quiet" ->
           thread_safe_print("generated") \o thread_safe_print("failed")
      [] path = "fail" ->
           thread_safe_print("generated") \o thread_safe_print("failed") \o error_block

Paths == {"render_fail", "spawn_fail", "ok", "fail_quiet", "fail"}

\* Lines 519, 522, 526: main prints one line per finished project, while the
\* variant tasks of the other projects are still printing.
main_prints(n) == [j \in 1..n |-> <<"project_done">>]

Printer(script) == [script |-> script, section |-> 1, written |-> 0]

\* The section thread t is at, <<>> when it has printed everything.
Section(t) ==
    IF printers[t].section <= Len(printers[t].script)
    THEN printers[t].script[printers[t].section] ELSE <<>>

\* print() writes the text and then the line end: two writes per line.
Writes(section) == 2 * Len(section)

\* "with print_lock:" is entered: the lock is taken when it is free.
lock_acquire(t) ==
    /\ Section(t) # <<>>
    /\ print_lock = <<>>
    /\ print_lock' = <<t>>
    /\ UNCHANGED <<console, printers, runVars, renderVars>>

\* One write of a print inside the critical section.
console_write(t) ==
    /\ print_lock = <<t>>
    /\ printers[t].written < Writes(Section(t))
    /\ console' = Append(console,
                    [thread |-> t,
                     text |-> IF printers[t].written % 2 = 0
                              THEN Section(t)[printers[t].written \div 2 + 1]
                              ELSE "\n"])
    /\ printers' = [printers EXCEPT ![t].written = @ + 1]
    /\ UNCHANGED <<print_lock, runVars, renderVars>>

\* The with-block is left: the lock is released.
lock_release(t) ==
    /\ print_lock = <<t>>
    /\ printers[t].written = Writes(Section(t))
    /\ print_lock' = <<>>
    /\ printers' = [printers EXCEPT ![t].section = @ + 1, ![t].written = 0]
    /\ UNCHANGED <<console, runVars, renderVars>>

\* The main thread and the two variant threads of a project, each about to
\* print what its path prints.
InitConsole ==
    /\ InitWith({<<RunCpu>>}, {<<>>}, {<<>>}, {<<>>}, {<<>>})
    /\ RenderIdle
    /\ print_lock = <<>>
    /\ console = <<>>
    /\ \E n \in 0..MaxMainPrints, pad_path \in Paths, exam_path \in Paths :
         printers = [t \in {"main", "pad", "exam"} |->
                       CASE t = "main" -> Printer(main_prints(n))
                         [] t = "pad" -> Printer(compile_sub_pad_prints(pad_path))
                         [] t = "exam" -> Printer(compile_sub_exam_prints(exam_path))]

NextConsole ==
    \/ \E t \in DOMAIN printers : lock_acquire(t)
    \/ \E t \in DOMAIN printers : console_write(t)
    \/ \E t \in DOMAIN printers : lock_release(t)

SpecConsole == InitConsole /\ [][NextConsole]_vars

\* ---------------------------------------------------------- the exam render

\* Texts are sequences of characters.
NewPage == <<"\\", "n", "e", "w", "p", "a", "g", "e">>
VFill == <<"\\", "v", "f", "i", "l", "l">>
TitleAnchor == <<"{", "t", "i", "t", "l", "e", "}">>
ContentAnchor == <<"{", "c", "o", "n", "t", "e", "n", "t", "}">>

\* The end of the template of lines 229-330: the title line, the page break
\* of the cover and the content anchor.
template == TitleAnchor \o <<"\n">> \o NewPage \o <<"\n">> \o ContentAnchor \o <<"\n">>

\* text starts with old.
StartsWith(text, old) ==
    Len(text) >= Len(old) /\ SubSeq(text, 1, Len(old)) = old

\* str.replace(old, new): one pass from the left over the occurrences of old
\* that do not overlap; what is put in is not searched again.
RECURSIVE replace(_, _, _)
replace(text, old, new) ==
    IF Len(text) < Len(old) THEN text
    ELSE IF StartsWith(text, old)
         THEN new \o replace(SubSeq(text, Len(old) + 1, Len(text)), old, new)
         ELSE <<text[1]>> \o replace(Tail(text), old, new)

\* old occurs in text.
Contains(text, old) ==
    \E j \in 1..(Len(text) - Len(old) + 1) : SubSeq(text, j, j + Len(old) - 1) = old

\* What source bodies are made of: the two markers, the two halves of the
\* page-break marker, other text.
Pieces == {NewPage, VFill, <<"\\", "n", "e", "w">>, <<"p", "a", "g", "e">>, <<"x">>}

RECURSIVE Bodies(_)
Bodies(n) ==
    IF n = 0 THEN {<<>>}
    ELSE Bodies(n - 1) \cup {b \o piece : b \in Bodies(n - 1), piece \in Pieces}

\* Line 338: read main.tex and remove the two markers.
render_read ==
    /\ input_tex # <<>>
    /\ input_tex.value = <<>>
    /\ input_tex' = [input_tex EXCEPT
                       !.value = <<replace(replace(input_tex.main_tex, NewPage, <<>>),
                                           VFill, <<>>)>>]
    /\ UNCHANGED <<out_tex, consoleVars, runVars>>

\* Line 340: fill the template.
render_fill(name) ==
    /\ input_tex # <<>>
    /\ input_tex.value # <<>>
    /\ out_tex = <<>>
    /\ out_tex' = <<replace(replace(template, TitleAnchor, name),
                            ContentAnchor, input_tex.value[1])>>
    /\ UNCHANGED <<input_tex, consoleVars, runVars>>

\* compile_sub_exam is about to render a project whose main.tex holds a body.
InitRender ==
    /\ InitWith({<<RunCpu>>}, {<<>>}, {<<>>}, {<<>>}, {<<>>})
    /\ ConsoleIdle
    /\ \E body \in Bodies(MaxPieces) : input_tex = [main_tex |-> body, value |-> <<>>]
    /\ out_tex = <<>>

NextRender ==
    \/ render_read
    \/ \E name \in {<<"A">>, <<"B", "1">>} : render_fill(name)

SpecRender == InitRender /\ [][NextRender]_vars

\* ------------------------------------------------------------------ claims

Count(seq, x) == Cardinality({j \in 1..Len(seq) : seq[j] = x})

\* The as_completed loop of main has consumed every project.
LoopFinished == pc \in {"report", "exited"} /\ Len(futures) > 0

Consumed == {k \in DOMAIN futures : futures[k].consumed}
Raised == {k \in DOMAIN futures : futures[k].state = "raised"}
Returned == {k \in DOMAIN futures : futures[k].state = "returned"}
FaultNames == {fault_name(j) : j \in 0..(Len(projects) - 1)}
Titles == {projects[k].name : k \in DOMAIN projects}
Outcome(k, v) == futures[k].tasks[v].outcome
BothTrue(k) == Outcome(k, "pad") = "true" /\ Outcome(k, "exam") = "true"
Other(v) == IF v = "pad" THEN "exam" ELSE "pad"
ResultSet(k) == {futures[k].results[r] : r \in 1..Len(futures[k].results)}

\* C1: every project the loop has consumed contributed exactly one entry to
\* exactly one of the two lists, a caught fault included; when the loop is
\* over every submitted project is consumed, so the two lists hold exactly
\* N = len(projects) entries.
C1_OneEntryPerProject ==
    /\ Len(successful_projects) + Len(failed_projects) = Cardinality(Consumed)
    /\ Cardinality(Consumed) = i
    /\ \A n \in Titles :
         Count(successful_projects, n) + Count(failed_projects, n)
           = Cardinality({k \in Consumed \cap Returned : projects[k].name = n})
    /\ LoopFinished =>
         /\ Consumed = DOMAIN projects
         /\ Len(successful_projects) + Len(failed_projects) = Len(projects)

\* Two projects, one of which raised and one of which succeeded, both reported.
C1_Witness ==
    /\ LoopFinished
    /\ Len(projects) = 2
    /\ Raised # {}
    /\ Len(successful_projects) = 1
    /\ Len(failed_projects) = 1

\* C2: a fault raised by a project task never ends main (it is caught in the
\* loop) and is recorded as one synthesized failed entry; every project that
\* did not raise has run both variants and its name is in the succeeded list
\* iff both of its own variant results are true, in the failed list otherwise.
C2_FaultIsolated ==
    /\ Raised # {} => pc # "crashed"
    /\ (LoopFinished /\ Raised # {}) =>
         /\ Cardinality({j \in 1..Len(failed_projects) : failed_projects[j] \in FaultNames})
              = Cardinality(Raised)
         /\ \A k \in DOMAIN futures \ Raised :
              /\ futures[k].state = "returned"
              /\ \A v \in {"pad", "exam"} : futures[k].tasks[v].state = "done"
         /\ \A n \in Titles :
              /\ Count(successful_projects, n)
                   = Cardinality({k \in Returned : projects[k].name = n /\ BothTrue(k)})
              /\ Count(failed_projects, n)
                   = Cardinality({k \in Returned : projects[k].name = n /\ ~BothTrue(k)})

\* The first project consumed raised, a later one succeeded on its own results.
C2_Witness ==
    /\ LoopFinished
    /\ \E k \in Raised : futures[k].tasks["pad"].render_failed
    /\ failed_projects = <<fault_name(0)>>
    /\ \E k \in Returned : BothTrue(k) /\ successful_projects = <<projects[k].name>>

\* C3: the outcome compile_sub_project returns is true iff the pad result and
\* the exam result are both true, in either order of completion.
C3_OutcomeIsAnd ==
    \A k \in Returned : futures[k].value[1] <=> BothTrue(k)

\* The exam result was collected first and is true, the pad result is false.
C3_Witness ==
    \E k \in Returned :
        /\ futures[k].results[1] = <<TRUE, task_type("exam", k - 1)>>
        /\ futures[k].results[2] = <<FALSE, task_type("pad", k - 1)>>
        /\ futures[k].value[1] = FALSE

\* C4: when both compilers of a project were invoked and exactly one exits
\* nonzero, the project does not raise, it returns only after the sibling has
\* exited, it returns succeeded = false, and the sibling's own result is true
\* and among the collected results; for a per-project pool of width 1 or 2.
C4_OneVariantFails ==
    \A k \in DOMAIN futures : \A v \in {"pad", "exam"} :
        LET t == futures[k].tasks[v]
            w == futures[k].tasks[Other(v)]
        IN  (t.returncode = <<1>> /\ w.spawned /\ w.returncode # <<1>>) =>
              /\ futures[k].state \notin {"raising", "raised"}
              /\ futures[k].state = "returned" =>
                   /\ futures[k].value[1] = FALSE
                   /\ w.state = "done"
                   /\ w.returncode = <<0>>
                   /\ w.outcome = "true"
                   /\ <<TRUE, task_type(Other(v), k - 1)>> \in ResultSet(k)

\* Width 1: pad exited nonzero first, exam still ran and succeeded.
C4_Witness ==
    /\ max_tasks_per_project = 1
    /\ \E k \in Returned :
         /\ futures[k].tasks["pad"].returncode = <<1>>
         /\ futures[k].tasks["exam"].returncode = <<0>>
         /\ futures[k].value[1] = FALSE

\* C5: a render failure of either variant makes that variant return a failed
\* result without raising and without invoking the compiler; the project then
\* returns with the sibling's result collected and is reported as failed under
\* its own name.
C5_RenderFailureContained ==
    \A k \in DOMAIN futures : \A v \in {"pad", "exam"} :
        futures[k].tasks[v].render_failed =>
          /\ futures[k].tasks[v].outcome = "false"
          /\ ~futures[k].tasks[v].spawned
          /\ futures[k].state \in {"running", "returned"}
          /\ futures[k].state = "returned" =>
               \E r \in ResultSet(k) : r[2] = task_type(Other(v), k - 1)
          /\ futures[k].consumed => Count(failed_projects, projects[k].name) > 0

C10_PositiveWidths ==
    pc = "pool" => max_projects >= 1 /\ max_tasks_per_project >= 1

\* The CPU counts of the planner's test table.
TestedCpus == {1, 2, 3, 4, 5, 6, 8, 9, 16, 33}

\* The three tiers as the specification states them.
TierTable(c) ==
    CASE c <= 4 -> <<Max(c, 2), 2>>
      [] 4 < c /\ c <= 8 -> <<c - 1, 2>>
      [] c > 8 -> <<c - 2, Min(2, c \div 4)>>

\* The plans the specification gives as examples.
TierExamples == (4 :> <<4, 2>>) @@ (6 :> <<5, 2>>) @@ (9 :> <<7, 2>>) @@ (16 :> <<14, 2>>)

\* The plan in effect was computed by calculate_concurrency(cpu_count):
\* between detection and the overrides.
PlanIsComputed == pc \in {"parse", "force", "override"}

\* C7: for every tested CPU count c, the plan calculate_concurrency(c) has a
\* project width >= 2 and a task width in {1, 2}, equals the three-tier
\* table, and equals the specification's examples.
C7_PlanTable ==
    (PlanIsComputed /\ cpu_count \in TestedCpus) =>
      /\ max_projects >= 2
      /\ max_tasks_per_project \in {1, 2}
      /\ <<max_projects, max_tasks_per_project>> = TierTable(cpu_count)
      /\ cpu_count \in DOMAIN TierExamples =>
           <<max_projects, max_tasks_per_project>> = TierExamples[cpu_count]

\* The top of the middle tier, computed from a forced CPU count of 8.
C7_Witness ==
    /\ pc = "override"
    /\ args.force_cpu = 8
    /\ cpu_count = 8
    /\ <<max_projects, max_tasks_per_project>> = <<7, 2>>

\* C8: after option processing, a width the user gave is the width in
\* effect, for every detected and every forced CPU count.
C8_OverrideWins ==
    pc = "submode" =>
      /\ argv.max_projects # <<>> => max_projects = argv.max_projects[1]
      /\ argv.max_tasks_per_project # <<>> =>
           max_tasks_per_project = argv.max_tasks_per_project[1]

\* --max-projects 1 --max-tasks-per-project 1 --force-cpu 16 on a 6-core machine.
C8_Witness ==
    /\ pc = "submode"
    /\ logical_cores = <<6>>
    /\ argv.force_cpu = <<16>>
    /\ argv.max_projects = <<1>>
    /\ argv.max_tasks_per_project = <<1>>
    /\ max_projects = 1
    /\ max_tasks_per_project = 1

\* C9: with a forced CPU count f > 0 and no width override, the plan in
\* effect after option processing is calculate_concurrency(f).
C9_ForcedCpuPlans ==
    ( /\ pc = "submode"
      /\ argv.force_cpu # <<>>
      /\ args.force_cpu > 0
      /\ argv.max_projects = <<>>
      /\ argv.max_tasks_per_project = <<>> ) =>
        <<max_projects, max_tasks_per_project>> = calculate_concurrency(args.force_cpu)

\* The project pool has been sized: from its creation at line 499 on.
PoolSized == pc \in {"pool", "submit", "collect", "report", "crashed"}
             \/ (pc = "exited" /\ Len(futures) > 0)

\* C11: the width the project pool is created with is min(projectWidth, N),
\* projectWidth the width in effect after option processing (which lines
\* 469-472 leave equal to args.max_projects) and N >= 1 the number of
\* projects: it is exactly N when N is smaller than projectWidth, and never
\* larger than N.
C11_PoolShrunk ==
    PoolSized =>
      /\ max_projects = Min(args.max_projects, Len(projects))
      /\ Len(projects) < args.max_projects => max_projects = Len(projects)
      /\ max_projects <= Len(projects)

\* One project on a machine whose plan has two project workers: a pool of one.
C11_Witness ==
    /\ pc = "submit"
    /\ Len(projects) = 1
    /\ args.max_projects = 2
    /\ max_projects = 1

\* The task of variant v of project k ended because Popen raised.
SpawnFailed(k, v) ==
    /\ futures[k].tasks[v].state = "done"
    /\ ~futures[k].tasks[v].render_failed
    /\ ~futures[k].tasks[v].spawned

\* C12: a variant task whose compiler could not be started returns False and
\* raises nothing: its project does not raise, it returns succeeded = false,
\* and once consumed it is in the failed list under its own name.
C12_SpawnFailureContained ==
    \A k \in DOMAIN futures : \A v \in {"pad", "exam"} :
        SpawnFailed(k, v) =>
          /\ futures[k].tasks[v].outcome = "false"
          /\ futures[k].state \in {"running", "returned"}
          /\ futures[k].state = "returned" => futures[k].value[1] = FALSE
          /\ futures[k].consumed => Count(failed_projects, projects[k].name) > 0

\* Thread t is inside a print: it has written part of its section.
Writing(t) == printers[t].written > 0 /\ printers[t].written < Writes(Section(t))

\* C13: every write to the console is made by the thread that holds
\* print_lock, so at most one thread is inside a print; no line of the
\* console is split by another thread's write, and the error header is
\* directly followed by the same thread's stderr line.
C13_ConsoleSerialized ==
    /\ \A t \in DOMAIN printers :
         (printers[t].written > 0 \/ Writing(t)) => print_lock = <<t>>
    /\ Cardinality({t \in DOMAIN printers : Writing(t)}) <= 1
    /\ \A j \in 1..Len(console) :
         /\ (console[j].text # "\n" /\ j < Len(console)) =>
              console[j + 1] = [thread |-> console[j].thread, text |-> "\n"]
         /\ (console[j].text = "error_header" /\ j + 2 <= Len(console)) =>
              console[j + 2] = [thread |-> console[j].thread, text |-> "stderr"]

\* Both variants failed with diagnostics; exam printed its whole error block
\* while pad waits for the lock with its own error block still to print.
C13_Witness ==
    /\ Len(console) >= 4
    /\ console[Len(console) - 3] = [thread |-> "exam", text |-> "error_header"]
    /\ console[Len(console) - 1] = [thread |-> "exam", text |-> "stderr"]
    /\ print_lock = <<"exam">>
    /\ Section("pad") = <<"error_header", "stderr">>
    /\ printers["pad"].written = 0

\* The project task of k has produced its outcome.
Finished(k) == futures[k].state \in {"returned", "raised"}

PoolsCreated ==
    /\ pc = "submit"
    /\ Len(projects) >= 1
    /\ max_projects >= 1
    /\ max_tasks_per_project >= 1

AllCollected ==
    /\ Len(futures) = Len(projects)
    /\ \A k \in DOMAIN futures : Finished(k) /\ futures[k].consumed
    /\ i = Len(projects)

\* C15: under fair scheduling, once the project pool exists with widths >= 1
\* the run reaches its exit with every project finished and collected (no
\* deadlock of the nested pools); and the report is never reached before all
\* N outcomes have been collected.
C15_Terminates ==
    /\ PoolsCreated ~> (pc = "exited" /\ AllCollected /\ exit_status # <<>>)
    /\ []((pc \in {"report", "exited"} /\ Len(projects) >= 1) => AllCollected)

\* Two projects through pools of width 1 each, reported.
C15_Witness ==
    /\ pc = "exited"
    /\ Len(projects) = 2
    /\ max_projects = 1
    /\ max_tasks_per_project = 1
    /\ AllCollected

Names(seq) == {seq[j] : j \in 1..Len(seq)}

\* The two lists the loop of lines 515-527 leaves when the finished projects
\* k..N are yielded in the order of submission, after <<succ, failed>>.
RECURSIVE InOrderReport(_, _, _)
InOrderReport(k, succ, failed) ==
    IF k > Len(futures) THEN <<succ, failed>>
    ELSE IF futures[k].state = "returned"
         THEN InOrderReport(k + 1,
                record_outcome(succ, failed, futures[k].value[1], futures[k].value[3])[1],
                record_outcome(succ, failed, futures[k].value[1], futures[k].value[3])[2])
         ELSE InOrderReport(k + 1, succ, record_fault(failed, k - 1))

\* C16: the sets of names of the report depend only on the projects and on
\* what each variant did, not on the order of completion: they are the sets
\* of the run in which the same outcomes are yielded in submission order.
C16_ReportDeterministic ==
    LoopFinished =>
      /\ Names(successful_projects) = Names(InOrderReport(1, <<>>, <<>>)[1])
      /\ Names(failed_projects) = Names(InOrderReport(1, <<>>, <<>>)[2])

\* C17: once a body that holds a page-break or fill marker is rendered, the
\* text put at the content anchor holds no page-break marker.
C17_PageBreakRemoved ==
    (/\ input_tex # <<>>
     /\ input_tex.value # <<>>
     /\ Contains(input_tex.main_tex, NewPage) \/ Contains(input_tex.main_tex, VFill))
    => ~Contains(input_tex.value[1], NewPage)

\* The number of compiler subprocesses running.
Subprocesses ==
    Cardinality({kv \in (DOMAIN futures) \X {"pad", "exam"} :
                    futures[kv[1]].tasks[kv[2]].state = "compiling"})

\* C18: never more project tasks executing than the project pool is wide,
\* never more variants of one project executing than the task pool is wide
\* (with width 1 pad and exam never compile together), and never more
\* compilers running than projectWidth x min(taskWidth, 2).
C18_WidthsBoundConcurrency ==
    Len(futures) > 0 =>
      /\ running_projects <= max_projects
      /\ \A k \in DOMAIN futures :
           /\ compiling(futures[k]) <= max_tasks_per_project
           /\ max_tasks_per_project = 1 =>
                ~(/\ futures[k].tasks["pad"].state = "compiling"
                  /\ futures[k].tasks["exam"].state = "compiling")
      /\ Subprocesses <= max_projects * Min(max_tasks_per_project, 2)

\* Both pools full: with task width 1 the pad compiler of a project runs
\* while its exam task waits in the queue, a second project waiting too.
C18_Witness ==
    /\ max_tasks_per_project = 1
    /\ max_projects = 1
    /\ Len(futures) = 2
    /\ futures[1].tasks["pad"].state = "compiling"
    /\ futures[1].tasks["exam"].state = "queued"
    /\ futures[2].state = "queued"

\* C19: the synthesized name recorded for a faulted project carries the index
\* under which that project was submitted (task_id = k - 1), whatever the
\* order in which the project tasks complete.
C19_FaultNameIdentifiesProject ==
    \A k \in Raised :
        futures[k].consumed => Count(failed_projects, fault_name(k - 1)) > 0

\* seq grew by one element at its end.
AppendedOne(seq, seq2) == Len(seq2) = Len(seq) + 1 /\ SubSeq(seq2, 1, Len(seq)) = seq

\* C20: the succeeded and failed lists change only in a step of the main
\* thread's loop over the completed projects (the loop counter advances and
\* one finished project becomes consumed), and such a step appends exactly
\* one name to exactly one list; no step of a project or variant worker
\* changes them.
C20_AppendsSerialized ==
    [][(successful_projects' # successful_projects \/ failed_projects' # failed_projects)
       => /\ pc = "collect"
          /\ i' = i + 1
          /\ \E k \in DOMAIN futures :
               /\ Finished(k) /\ ~futures[k].consumed /\ futures'[k].consumed
               /\ \A j \in DOMAIN futures \ {k} : futures'[j] = futures[j]
          /\ \/ AppendedOne(successful_projects, successful_projects')
                /\ failed_projects' = failed_projects
             \/ AppendedOne(failed_projects, failed_projects')
                /\ successful_projects' = successful_projects]_vars

\* Main has appended a name while a worker is still compiling another
\* project.
C20_Witness ==
    /\ pc = "collect"
    /\ Len(successful_projects) + Len(failed_projects) = 1
    /\ \E k \in DOMAIN futures :
         futures[k].state = "running" /\ compiling(futures[k]) > 0

====
